---- MODULE Spec2Model ----
(***************************************************************************)
(* Model of the zoe-tabs backend (src/main.py): the POST                   *)
(* /api/youtube-to-tabs handler youtube_to_tabs, the yt-dlp downloader     *)
(* stage download_youtube_audio and the stub transcriber                   *)
(* fake_generate_tabs.  Requests are served concurrently (the handler is a *)
(* plain def, so the framework runs each call on a worker thread); each    *)
(* request walks through the blocking points of the downloader stage.      *)
(* Python strings that the handler builds or inspects are sequences of     *)
(* one-character strings, so that formatting, suffix tests and substring   *)
(* tests are computed rather than assumed.                                 *)
(***************************************************************************)
EXTENDS Integers, Sequences, FiniteSets, TLC

\* ------------------------------------------------------------------ bounds
MaxRequests ==
    2

MaxDirs ==
    2

MaxExit ==
    11

MaxSignal ==
    1

MaxFiles ==
    2

\* --------------------------------------------------------- program constants
\* subprocess.run(..., timeout=30)
TimeoutSeconds ==
    30

\* string literals of src/main.py
TimeoutMessage ==
    <<"E","R","R","O","R",":"," ","y","t","-","d","l","p"," ","t","i","m",
      "e","o","u","t"," ","(",">","3","0","s",")","."," ","T","r","y"," ",
      "a"," ","s","h","o","r","t","e","r"," ","v","i","d","e","o",".">>

FailedPrefix ==
    <<"E","R","R","O","R",":"," ","y","t","-","d","l","p"," ","f","a","i",
      "l","e","d"," ","(","e","x","i","t"," ">>

FailedSuffix ==
    <<")",".">>

ErrorPrefix ==
    <<"E","R","R","O","R",":"," ">>

TabGeneratorPrefix ==
    <<"E","R","R","O","R"," ","(","t","a","b"," ","g","e","n","e","r","a",
      "t","o","r",")",":"," ">>

OkMessage ==
    <<"O","K">>

NoWavText ==
    <<"y","t","-","d","l","p"," ","c","o","m","p","l","e","t","e","d"," ",
      "b","u","t"," ","n","o"," ","W","A","V"," ","f","i","l","e"," ","w",
      "a","s"," ","p","r","o","d","u","c","e","d",".">>

WavSuffix ==
    <<".","w","a","v">>

DemoTab ==
    <<"A","|","-","-","-","-","-","0","-","-","-","-","-","-","-","-","-",
      "-","-","0","-","-","-","-","-","-","-","-","-","-","-","|","\n","E",
      "|","-","-","-","3","-","-","-","3","-","-","-","-","-","-","-","3",
      "-","-","-","3","-","-","-","-","-","-","-","-","-","|","\n","C","|",
      "-","0","-","-","-","-","-","-","-","0","-","-","-","2","-","-","-",
      "-","-","-","-","2","-","-","-","-","-","-","-","|","\n","G","|","-",
      "-","-","-","-","-","-","-","-","-","-","-","-","-","-","-","-","-",
      "-","-","-","-","-","-","-","-","-","-","-","|","\n">>

\* str() of the exceptions the standard library raises; the argv list that
\* subprocess embeds in the text is abbreviated to the program name
TimeoutExpiredPrefix ==
    <<"C","o","m","m","a","n","d"," ","'","y","t","-","d","l","p","'"," ",
      "t","i","m","e","d"," ","o","u","t"," ","a","f","t","e","r"," ">>

TimeoutExpiredSuffix ==
    <<" ","s","e","c","o","n","d","s">>

CalledProcessPrefix ==
    <<"C","o","m","m","a","n","d"," ","'","y","t","-","d","l","p","'"," ",
      "r","e","t","u","r","n","e","d"," ","n","o","n","-","z","e","r","o",
      " ","e","x","i","t"," ","s","t","a","t","u","s"," ">>

CalledProcessSuffix ==
    <<".">>

DiedPrefix ==
    <<"C","o","m","m","a","n","d"," ","'","y","t","-","d","l","p","'"," ",
      "d","i","e","d"," ","w","i","t","h"," ","u","n","k","n","o","w","n",
      " ","s","i","g","n","a","l"," ">>

MkdtempErrorText ==
    <<"[","E","r","r","n","o"," ","2","8","]"," ","N","o"," ","s","p","a",
      "c","e"," ","l","e","f","t"," ","o","n"," ","d","e","v","i","c","e">>

SpawnErrorText ==
    <<"[","E","r","r","n","o"," ","2","]"," ","N","o"," ","s","u","c","h",
      " ","f","i","l","e"," ","o","r"," ","d","i","r","e","c","t","o","r",
      "y",":"," ","'","y","t","-","d","l","p","'">>

\* names of the files a downloader run may leave in its working directory
AudioWav ==
    <<"a","u","d","i","o",".","w","a","v">>

AudioWebm ==
    <<"a","u","d","i","o",".","w","e","b","m">>

AudioWavPart ==
    <<"a","u","d","i","o",".","w","a","v",".","p","a","r","t">>

\* ------------------------------------------------------------ value spaces
Requests ==
    1..MaxRequests

Dirs ==
    1..MaxDirs

\* tmp_dir of a request for which mkdtemp has not returned
NoDir ==
    0

\* request bodies a client may post: the empty string and a video URL
URLs ==
    {"", "https://youtu.be/demo"}

FileNames ==
    {AudioWav, AudioWebm, AudioWavPart}

\* what one downloader run may leave behind
FileSets ==
    {fs \in SUBSET FileNames : Cardinality(fs) <= MaxFiles}

\* non-zero return codes of the child: 1..MaxExit, or -N when killed by signal N
ExitCodes ==
    ((0 - MaxSignal)..MaxExit) \ {0}

\* -------------------------------------------------------- string functions
\* variant: tests the start of the name (str.startswith)
EndsWith_StartsWith(s, suffix) ==
    /\ Len(s) >= Len(suffix)
    /\ SubSeq(s, 1, Len(suffix)) = suffix

\* variant: tests for the text anywhere in the name (suffix in s)
EndsWith_Anywhere(s, suffix) ==
    \E i \in 1..(Len(s) - Len(suffix) + 1) :
        SubSeq(s, i, i + Len(suffix) - 1) = suffix

\* str.endswith
EndsWith(s, suffix) ==
    /\ Len(s) >= Len(suffix)
    /\ SubSeq(s, Len(s) - Len(suffix) + 1, Len(s)) = suffix

DigitChar(d) ==
    <<"0", "1", "2", "3", "4", "5", "6", "7", "8", "9">>[d + 1]

RECURSIVE Digits(_)
Digits(n) ==
    IF n < 10 THEN <<DigitChar(n)>>
    ELSE Digits(n \div 10) \o <<DigitChar(n % 10)>>

\* str(int) / the {...} conversion of an int in an f-string
Str(n) ==
    IF n < 0 THEN <<"-">> \o Digits(0 - n) ELSE Digits(n)

\* ------------------------------------------------------------- exceptions
\* An exception object: its class, its returncode attribute (0 where the class
\* has none) and str(e).
TimeoutExpired ==
    [type |-> "TimeoutExpired", returncode |-> 0,
     text |-> TimeoutExpiredPrefix \o Str(TimeoutSeconds) \o TimeoutExpiredSuffix]

CalledProcessError(code) ==
    [type |-> "CalledProcessError", returncode |-> code,
     text |-> IF code < 0
              THEN DiedPrefix \o Str(0 - code) \o CalledProcessSuffix
              ELSE CalledProcessPrefix \o Str(code) \o CalledProcessSuffix]

RuntimeError(text) ==
    [type |-> "RuntimeError", returncode |-> 0, text |-> text]

OSError(text) ==
    [type |-> "OSError", returncode |-> 0, text |-> text]

\* classes derived from Exception (all of the above are)
ExceptionTypes ==
    {"TimeoutExpired", "CalledProcessError", "RuntimeError", "OSError"}

\* --------------------------------------------------------------- envelope
TabResponse(tab, chords, message) ==
    [tab |-> tab, chords |-> chords, message |-> message]

\* variant: the message without the return code
FailedMessage_NoCode(returncode) ==
    FailedPrefix \o FailedSuffix

FailedMessage(returncode) ==
    FailedPrefix \o Str(returncode) \o FailedSuffix

\* variant: no clause for TimeoutExpired, which then reaches except Exception
HandleDownloadError_NoTimeoutClause(e) ==
    IF e.type = "CalledProcessError"
    THEN <<[tab |-> <<>>, chords |-> <<>>,
            message |-> FailedPrefix \o Str(e.returncode) \o FailedSuffix]>>
    ELSE IF e.type \in {"TimeoutExpired", "CalledProcessError", "RuntimeError",
                        "OSError"}
    THEN <<[tab |-> <<>>, chords |-> <<>>, message |-> ErrorPrefix \o e.text]>>
    ELSE <<>>

\* variant: no except Exception clause after the two subprocess clauses
HandleDownloadError_NoCatchAll(e) ==
    IF e.type = "TimeoutExpired"
    THEN <<[tab |-> <<>>, chords |-> <<>>, message |-> TimeoutMessage]>>
    ELSE IF e.type = "CalledProcessError"
    THEN <<[tab |-> <<>>, chords |-> <<>>,
            message |-> FailedPrefix \o Str(e.returncode) \o FailedSuffix]>>
    ELSE <<>>

\* The except clauses around download_youtube_audio, in source order.  The
\* result is the sequence of envelopes returned: one if a clause matches, none
\* if the exception leaves the handler.
HandleDownloadError(e) ==
    IF e.type = "TimeoutExpired"
    THEN <<TabResponse(<<>>, <<>>, TimeoutMessage)>>
    ELSE IF e.type = "CalledProcessError"
    THEN <<TabResponse(<<>>, <<>>, FailedMessage(e.returncode))>>
    ELSE IF e.type \in ExceptionTypes
    THEN <<TabResponse(<<>>, <<>>, ErrorPrefix \o e.text)>>
    ELSE <<>>

\* variant: a transcriber whose output depends on where the audio file lies
fake_generate_tabs_PathDependent(audio_path) ==
    [raised |-> <<>>,
     chords |-> IF audio_path.dir = 1
                THEN << <<"C">>, <<"G">>, <<"A", "m">>, <<"F">> >>
                ELSE << <<"F">>, <<"C">> >>,
     tab    |-> DemoTab]

\* The stub transcriber: ignores audio_path, returns fixed chords and tab, and
\* has no raising path.
fake_generate_tabs(audio_path) ==
    [raised |-> <<>>,
     chords |-> << <<"C">>, <<"G">>, <<"A", "m">>, <<"F">> >>,
     tab    |-> DemoTab]

\* Step 2 of the handler: the try/except around the transcriber.
GenerateTabs(audio_path) ==
    LET res == fake_generate_tabs(audio_path)
    IN  IF res.raised = <<>>
        THEN <<TabResponse(res.tab, res.chords, OkMessage)>>
        ELSE IF res.raised[1].type \in ExceptionTypes
        THEN <<TabResponse(<<>>, <<>>, TabGeneratorPrefix \o res.raised[1].text)>>
        ELSE <<>>

\* ------------------------------------------------------- library behaviour
\* variant: a fixed or recycled directory name
mkdtemp_Reuse(existing) ==
    Dirs

\* tempfile.mkdtemp creates a directory under a name that does not exist yet
mkdtemp(existing) ==
    Dirs \ existing

\* variant: check=False, the return code is ignored
check_returncode_Unchecked(code) ==
    FALSE

\* subprocess.run(check=True): a non-zero return code raises CalledProcessError
check_returncode(code) ==
    code # 0

\* os.listdir + the endswith filter: the names the loop may return (listdir
\* order is arbitrary, the loop returns the first match)
WavFiles(names) ==
    {f \in names : EndsWith(f, WavSuffix)}

\* ------------------------------------------------------------------- state
VARIABLES
    pc,          \* position of each request's handler
    req,         \* <<>> or <<the YouTubeRequest>> received
    dirs,        \* directories that exist on the filesystem
    files,       \* file names in each directory
    tmp_dir,     \* local tmp_dir of download_youtube_audio
    wav_path,    \* <<>> or <<the path download_youtube_audio returned>>
    response,    \* the envelopes the handler has returned
    raised,      \* the exceptions that left the handler
    spawned,     \* number of downloader processes started for the request
    transcribed, \* number of transcriber invocations for the request
    created,     \* per directory, the requests whose mkdtemp returned it
    writers,     \* per directory, the requests whose downloader wrote into it
    scanners,    \* per directory, the requests that listed it
    env          \* what the environment did to the request, in order

vars ==
    <<pc, req, dirs, files, tmp_dir, wav_path, response, raised, spawned,
      transcribed, created, writers, scanners, env>>

\* an environment event: mkdtemp / spawn / process end / listdir outcome
Event(ev, code, names) ==
    [ev |-> ev, code |-> code, names |-> names]

\* out_tmpl = os.path.join(tmp_dir, "audio.%(ext)s"): the directory part
out_tmpl(r) ==
    tmp_dir[r]

Init ==
    /\ pc = [r \in Requests |-> "idle"]
    /\ req = [r \in Requests |-> <<>>]
    /\ dirs = {}
    /\ files = [d \in Dirs |-> {}]
    /\ tmp_dir = [r \in Requests |-> NoDir]
    /\ wav_path = [r \in Requests |-> <<>>]
    /\ response = [r \in Requests |-> <<>>]
    /\ raised = [r \in Requests |-> <<>>]
    /\ spawned = [r \in Requests |-> 0]
    /\ transcribed = [r \in Requests |-> 0]
    /\ created = [d \in Dirs |-> {}]
    /\ writers = [d \in Dirs |-> {}]
    /\ scanners = [d \in Dirs |-> {}]
    /\ env = [r \in Requests |-> <<>>]

\* An exception e raised inside download_youtube_audio reaches the except
\* clauses of the handler, which returns an envelope or lets e through.
Raise(r, e) ==
    LET out == HandleDownloadError(e)
    IN  /\ response' = [response EXCEPT ![r] = @ \o out]
        /\ raised' = [raised EXCEPT ![r] = IF out = <<>> THEN @ \o <<e>> ELSE @]
        /\ pc' = [pc EXCEPT ![r] = IF out = <<>> THEN "crashed" ELSE "done"]

\* The framework validates the body against YouTubeRequest (youtube_url: str)
\* and calls the handler.  Requests are numbered in order of arrival.
Receive(r) ==
    /\ pc[r] = "idle"
    /\ r > 1 => pc[r - 1] # "idle"
    /\ \E u \in URLs :
        /\ u \in STRING
        /\ req' = [req EXCEPT ![r] = <<[youtube_url |-> u]>>]
    /\ pc' = [pc EXCEPT ![r] = "mkdtemp"]
    /\ UNCHANGED <<dirs, files, tmp_dir, wav_path, response, raised, spawned,
                   transcribed, created, writers, scanners, env>>

\* tmp_dir = tempfile.mkdtemp()
Mkdtemp(r) ==
    /\ pc[r] = "mkdtemp"
    /\ \/ \E d \in mkdtemp(dirs) :
            /\ dirs' = dirs \cup {d}
            /\ tmp_dir' = [tmp_dir EXCEPT ![r] = d]
            /\ created' = [created EXCEPT ![d] = @ \cup {r}]
            /\ env' = [env EXCEPT ![r] = Append(@, Event("mkdtemp", 0, {}))]
            /\ pc' = [pc EXCEPT ![r] = "spawn"]
            /\ UNCHANGED <<response, raised>>
       \/ /\ Raise(r, OSError(MkdtempErrorText))
          /\ env' = [env EXCEPT ![r] = Append(@, Event("mkdtemp_error", 0, {}))]
          /\ UNCHANGED <<dirs, tmp_dir, created>>
    /\ UNCHANGED <<req, files, wav_path, spawned, transcribed, writers, scanners>>

\* subprocess.run starts the child, or fails to (yt-dlp not installed)
Spawn(r) ==
    /\ pc[r] = "spawn"
    /\ \/ /\ spawned' = [spawned EXCEPT ![r] = @ + 1]
          /\ env' = [env EXCEPT ![r] = Append(@, Event("spawn", 0, {}))]
          /\ pc' = [pc EXCEPT ![r] = "running"]
          /\ UNCHANGED <<response, raised>>
       \/ /\ Raise(r, OSError(SpawnErrorText))
          /\ env' = [env EXCEPT ![r] = Append(@, Event("spawn_error", 0, {}))]
          /\ UNCHANGED spawned
    /\ UNCHANGED <<req, dirs, files, tmp_dir, wav_path, transcribed, created,
                   writers, scanners>>

\* The child has written names into the directory of out_tmpl
Written(r, names) ==
    /\ files' = [files EXCEPT ![out_tmpl(r)] = @ \cup names]
    /\ writers' = [writers EXCEPT ![out_tmpl(r)] = @ \cup {r}]

\* The child is killed after the 30 second budget
ProcessTimeout(r) ==
    /\ pc[r] = "running"
    /\ \E names \in FileSets :
        /\ Written(r, names)
        /\ env' = [env EXCEPT ![r] = Append(@, Event("timeout", 0, names))]
    /\ Raise(r, TimeoutExpired)
    /\ UNCHANGED <<req, dirs, tmp_dir, wav_path, spawned, transcribed, created,
                   scanners>>

\* The child exits within the budget with some return code
ProcessExit(r) ==
    /\ pc[r] = "running"
    /\ \E names \in FileSets, code \in ExitCodes \cup {0} :
        /\ Written(r, names)
        /\ env' = [env EXCEPT ![r] = Append(@, Event("exit", code, names))]
        /\ IF check_returncode(code)
           THEN Raise(r, CalledProcessError(code))
           ELSE /\ pc' = [pc EXCEPT ![r] = "listdir"]
                /\ UNCHANGED <<response, raised>>
    /\ UNCHANGED <<req, dirs, tmp_dir, wav_path, spawned, transcribed, created,
                   scanners>>

\* for fname in os.listdir(tmp_dir): ... return / raise RuntimeError
Listdir(r) ==
    /\ pc[r] = "listdir"
    /\ scanners' = [scanners EXCEPT ![tmp_dir[r]] = @ \cup {r}]
    /\ \/ \E fname \in WavFiles(files[tmp_dir[r]]) :
            /\ wav_path' = [wav_path EXCEPT ![r] =
                               <<[dir |-> tmp_dir[r], fname |-> fname]>>]
            /\ env' = [env EXCEPT ![r] = Append(@, Event("listdir", 0, {fname}))]
            /\ pc' = [pc EXCEPT ![r] = "transcribe"]
            /\ UNCHANGED <<response, raised>>
       \/ /\ WavFiles(files[tmp_dir[r]]) = {}
          /\ Raise(r, RuntimeError(NoWavText))
          /\ env' = [env EXCEPT ![r] = Append(@, Event("listdir", 0, {}))]
          /\ UNCHANGED wav_path
    /\ UNCHANGED <<req, dirs, files, tmp_dir, spawned, transcribed, created,
                   writers>>

\* Step 2: chords, tab = fake_generate_tabs(wav_path); return TabResponse(...)
Transcribe(r) ==
    /\ pc[r] = "transcribe"
    /\ transcribed' = [transcribed EXCEPT ![r] = @ + 1]
    /\ LET out == GenerateTabs(wav_path[r][1])
       IN  /\ response' = [response EXCEPT ![r] = @ \o out]
           /\ pc' = [pc EXCEPT ![r] = IF out = <<>> THEN "crashed" ELSE "done"]
    /\ UNCHANGED <<req, dirs, files, tmp_dir, wav_path, raised, spawned, created,
                   writers, scanners, env>>

Next ==
    \E r \in Requests :
        \/ Receive(r)
        \/ Mkdtemp(r)
        \/ Spawn(r)
        \/ ProcessTimeout(r)
        \/ ProcessExit(r)
        \/ Listdir(r)
        \/ Transcribe(r)

Spec ==
    Init /\ [][Next]_vars

\* ------------------------------------------------- vocabulary of the claims
Done(r) ==
    pc[r] = "done"

Envelope(r) ==
    response[r][1]

IsFailure(e) ==
    e.tab = <<>> /\ e.chords = <<>>

\* s contains sub as a contiguous piece
Contains(s, sub) ==
    \E i \in 1..(Len(s) - Len(sub) + 1) : SubSeq(s, i, i + Len(sub) - 1) = sub

Happened(r, ev) ==
    \E i \in DOMAIN env[r] : env[r][i].ev = ev

TimedOut(r) ==
    Happened(r, "timeout")

ExitedWith(r, code) ==
    \E i \in DOMAIN env[r] : env[r][i].ev = "exit" /\ env[r][i].code = code

\* the non-zero return codes the downloader of r exited with
NonZeroExit(r) ==
    {env[r][i].code : i \in {j \in DOMAIN env[r] : env[r][j].ev = "exit"}} \ {0}

\* a file name whose last four characters are . w a v
IsWavName(f) ==
    /\ Len(f) >= 4
    /\ f[Len(f) - 3] = "."
    /\ f[Len(f) - 2] = "w"
    /\ f[Len(f) - 1] = "a"
    /\ f[Len(f)] = "v"

\* the downloader of r exited zero and r's directory holds (no) .wav file
ZeroExitWithWav(r) ==
    /\ ExitedWith(r, 0)
    /\ \E f \in files[tmp_dir[r]] : IsWavName(f)

ZeroExitWithoutWav(r) ==
    /\ ExitedWith(r, 0)
    /\ \A f \in files[tmp_dir[r]] : ~IsWavName(f)

\* acquisition of r has failed in one of the ways the downloader stage can fail
AcquisitionFailed(r) ==
    \/ Happened(r, "mkdtemp_error")
    \/ Happened(r, "spawn_error")
    \/ TimedOut(r)
    \/ NonZeroExit(r) # {}
    \/ \E i \in DOMAIN env[r] : env[r][i].ev = "listdir" /\ env[r][i].names = {}

TimedOutText ==
    <<"t", "i", "m", "e", "d", " ", "o", "u", "t">>

TimeoutWord ==
    <<"t", "i", "m", "e", "o", "u", "t">>

\* --------------------------------------------------------------------- C1
\* C1: whatever the downloader stage and the transcriber do, the handler
\* returns exactly one envelope and no exception leaves it: a request never
\* crashes, has no envelope while it runs, one envelope once it has returned,
\* and has returned as soon as acquisition failed.
C1_OneEnvelope ==
    \A r \in Requests :
        /\ raised[r] = <<>>
        /\ pc[r] # "crashed"
        /\ Len(response[r]) = (IF Done(r) THEN 1 ELSE 0)
        /\ AcquisitionFailed(r) => Done(r)
        /\ transcribed[r] > 0 => Done(r)

\* one request answered after mkdtemp failed, another after a spawn failure
C1_Witness ==
    \E r1, r2 \in Requests :
        /\ Done(r1) /\ Happened(r1, "mkdtemp_error")
        /\ Done(r2) /\ Happened(r2, "spawn_error")

C3_EmptyUrlRejected ==
    \A r \in Requests :
        (req[r] # <<>> /\ req[r][1].youtube_url = "") =>
            /\ tmp_dir[r] = NoDir
            /\ spawned[r] = 0
            /\ Done(r) => IsFailure(Envelope(r))

\* --------------------------------------------------------------------- C4
\* C4: after a non-zero exit code N the envelope has empty tab and chords and
\* its message contains N in decimal; requests that ended with different exit
\* codes got different messages.
C4_ExitCodeInMessage ==
    /\ \A r \in Requests : \A n \in NonZeroExit(r) :
        Done(r) =>
            /\ IsFailure(Envelope(r))
            /\ Contains(Envelope(r).message, Str(n))
    /\ \A r1, r2 \in Requests :
        \A n1 \in NonZeroExit(r1), n2 \in NonZeroExit(r2) :
            (Done(r1) /\ Done(r2) /\ n1 # n2)
            => Envelope(r1).message # Envelope(r2).message

\* one request ended with exit code 1, another with exit code 10
C4_Witness ==
    \E r1, r2 \in Requests :
        /\ Done(r1) /\ ExitedWith(r1, 1)
        /\ Done(r2) /\ ExitedWith(r2, 10)

\* --------------------------------------------------------------------- C5
\* C5: after a zero exit that left a .wav file in the working directory the
\* envelope has non-empty chords, non-empty tab and the message "OK".
C5_Success ==
    \A r \in Requests :
        ZeroExitWithWav(r) =>
            /\ pc[r] \in {"listdir", "transcribe", "done"}
            /\ Done(r) =>
                /\ Envelope(r).chords # <<>>
                /\ Envelope(r).tab # <<>>
                /\ Envelope(r).message = <<"O", "K">>

\* a request answered after its downloader left audio.wav next to another file
C5_Witness ==
    \E r \in Requests :
        /\ Done(r) /\ ZeroExitWithWav(r)
        /\ Cardinality(files[tmp_dir[r]]) > 1

\* --------------------------------------------------------------------- C6
\* C6: after a zero exit that left no .wav file the handler returns a failure
\* envelope whose message is the missing-artifact text, differs from the
\* timeout message and from the message of every non-zero exit code, and is
\* not the success envelope.
C6_ArtifactMissing ==
    \A r \in Requests :
        ZeroExitWithoutWav(r) =>
            /\ pc[r] \in {"listdir", "done"}
            /\ Done(r) =>
                /\ IsFailure(Envelope(r))
                /\ Contains(Envelope(r).message, NoWavText)
                /\ Envelope(r).message # OkMessage
                /\ Envelope(r).message # TimeoutMessage
                /\ \A n \in ExitCodes : Envelope(r).message # FailedMessage(n)
                /\ \A r2 \in Requests :
                    (Done(r2) /\ (TimedOut(r2) \/ NonZeroExit(r2) # {}))
                    => Envelope(r2).message # Envelope(r).message

\* a request answered after a zero exit that left only audio.wav.part, while
\* another request timed out
C6_Witness ==
    \E r, r2 \in Requests :
        /\ Done(r) /\ ZeroExitWithoutWav(r)
        /\ files[tmp_dir[r]] = {AudioWavPart}
        /\ Done(r2) /\ TimedOut(r2)

\* --------------------------------------------------------------------- C7
\* C7: once a request has returned, the working directory created for it no
\* longer exists.
C7_WorkingDirRemoved ==
    \A r \in Requests :
        (pc[r] = "done" /\ tmp_dir[r] # NoDir) => tmp_dir[r] \notin dirs

\* --------------------------------------------------------------------- C8
\* C8: every request gets a working directory of its own; only the request
\* that created a directory writes into it or lists it, and the path handed
\* to the transcriber lies in the request's own directory.
C8_Isolation ==
    /\ \A d \in Dirs :
        /\ Cardinality(created[d]) <= 1
        /\ writers[d] \subseteq created[d]
        /\ scanners[d] \subseteq created[d]
    /\ \A r1, r2 \in Requests :
        (r1 # r2 /\ tmp_dir[r1] = tmp_dir[r2]) => tmp_dir[r1] = NoDir
    /\ \A r \in Requests :
        wav_path[r] # <<>> =>
            /\ wav_path[r][1].dir = tmp_dir[r]
            /\ created[wav_path[r][1].dir] = {r}
            /\ wav_path[r][1].fname \in files[tmp_dir[r]]

\* two downloaders running at the same time, each with a directory
C8_Witness ==
    \E r1, r2 \in Requests :
        /\ r1 # r2
        /\ pc[r1] = "running" /\ pc[r2] = "transcribe"
        /\ tmp_dir[r1] # NoDir /\ tmp_dir[r2] # NoDir

C10_ShortCircuit ==
    \A r \in Requests :
        /\ spawned[r] <= 1
        /\ transcribed[r] <= 1
        /\ transcribed[r] > 0 =>
            /\ spawned[r] = 1
            /\ ExitedWith(r, 0)
            /\ wav_path[r] # <<>>
            /\ IsWavName(wav_path[r][1].fname)
        /\ pc[r] = "transcribe" => (ExitedWith(r, 0) /\ wav_path[r] # <<>>)
        /\ AcquisitionFailed(r) => (transcribed[r] = 0 /\ pc[r] # "transcribe")

\* one request transcribed, another stopped at a non-zero exit that left a
\* .wav file behind
C10_Witness ==
    \E r1, r2 \in Requests :
        /\ Done(r1) /\ transcribed[r1] = 1
        /\ Done(r2) /\ NonZeroExit(r2) # {}
        /\ AudioWav \in files[tmp_dir[r2]]
        /\ transcribed[r2] = 0

====
